---- MODULE Spec2Model ----
(***************************************************************************)
(* Model of writeABF (src/writeABF.py): the de-novo creation of an ABF1    *)
(* file from a channel-major array of samples.                             *)
(*                                                                         *)
(* The function is sequential; every block of the function body is one     *)
(* action and pc names the block that runs next.  A raised exception       *)
(* moves pc to "error" and records the exception class in exc.             *)
(*                                                                         *)
(* Numbers.  A sample is the exact decimal m * 10^e, kept as the record    *)
(* [m |-> m, e |-> e] with |m| <= MantMax, so that amplitudes from 1 to    *)
(* 10^11 fit the model checker's integers.  The scale of attenuation step  *)
(* k, valueScaleI = lADCResolution / fADCRange * 10^-k, is kept as k.      *)
(* Products and comparisons are evaluated exactly; the sample pools hold   *)
(* no value whose double-precision result differs from the exact one.      *)
(***************************************************************************)
EXTENDS Integers, Sequences, FiniteSets, TLC

\* ---------------------------------------------------------------- bounds
MaxCh == 3
MaxN == 2
MaxShift == 2

\* ------------------------------------------------------ program constants
BLOCKSIZE == 512
HEADER_BLOCKS == 4
MAX_NUM_CH == 16
bytesPerPoint == 2
lADCResolution == 32768
fADCRange == 10
fSignalGain == 1
fADCProgrammableGain == 1
ScaleAttempts == 10
UnitWidth == 8
SHRT_MAX == 32767
SHRT_MIN == -32768
MantMax == 99999

\* ------------------------------------------------------------- arithmetic
RECURSIVE Pow(_, _)
Pow(b, n) == IF n = 0 THEN 1 ELSE b * Pow(b, n - 1)

Abs(x) == IF x < 0 THEN -x ELSE x

Min(a, b) == IF a <= b THEN a ELSE b

\* np.abs of one sample
AbsSample(s) == [m |-> Abs(s.m), e |-> s.e]

\* a >= b for two non-negative samples
SampleGE(a, b) ==
  IF a.e >= b.e
  THEN IF a.e - b.e >= 5 THEN (a.m > 0 \/ b.m = 0)
       ELSE a.m * Pow(10, a.e - b.e) >= b.m
  ELSE IF b.e - a.e >= 5 THEN b.m = 0
       ELSE a.m >= b.m * Pow(10, b.e - a.e)

\* np.max over a non-empty set of non-negative samples
SampleMax(S) == CHOOSE x \in S : \A y \in S : SampleGE(x, y)

\* StepAccepts with fADCRange left out of the scale
StepAcceptsNoRange(k, mv) ==
  LET d == k - 1 - mv.e
      lhs == (SHRT_MAX * fADCRange) \div 2
      rhs == lADCResolution \div 2
  IN IF d >= 5 THEN TRUE
     ELSE IF d >= 0 THEN lhs * Pow(10, d) >= rhs * mv.m
     ELSE mv.m = 0

\* maxDeviationFromZero >= maxVal[ch] at attenuation step k, where
\* maxDeviationFromZero = 32767 / (lADCResolution / fADCRange * 10^-k):
\* SHRT_MAX * fADCRange * 10^k >= lADCResolution * mv, both sides halved.
StepAccepts(k, mv) ==
  LET d == k - mv.e
      lhs == (SHRT_MAX * fADCRange) \div 2
      rhs == lADCResolution \div 2
  IN IF d >= 5 THEN TRUE
     ELSE IF d >= 0 THEN lhs * Pow(10, d) >= rhs * mv.m
     ELSE mv.m = 0

\* a value outside the int16 range is kept as the nearest integer outside it
Saturate(v) ==
  IF v > SHRT_MAX THEN SHRT_MAX + 1
  ELSE IF v < SHRT_MIN THEN SHRT_MIN - 1
  ELSE v

\* int(s * valueScaleI) for the scale of step k: the product
\* m * 10^e * 2^15 / 10^(k+1), truncated toward zero (astype(int))
ScaleTrunc(s, k) ==
  LET j == k + 1 - s.e
      sign == IF s.m < 0 THEN -1 ELSE 1
      mag == Abs(s.m)
  IN IF mag = 0 THEN 0
     ELSE IF j <= 0
          THEN IF sign = -1 /\ mag = 1 /\ j = 0 THEN SHRT_MIN
               ELSE Saturate(sign * (SHRT_MAX + 2))
          ELSE Saturate(sign * ((mag * Pow(2, 15 - j)) \div Pow(5, j)))

\* one inner loop of the scale search (lines 84-91): the first step
\* k in 1..ScaleAttempts that StepAccepts, or 0 when the loop runs out
RECURSIVE SearchStep(_, _)
SearchStep(mv, k) ==
  IF k > ScaleAttempts THEN 0
  ELSE IF StepAccepts(k, mv) THEN k
  ELSE SearchStep(mv, k + 1)

\* ----------------------------------------------------------------- arrays
\* A numpy array is its shape and its elements in row-major order.
Size(arr) == Len(arr.elems)

Rank(arr) == Len(arr.shape)

\* channelData[ch, :] of an array of rank 2 or 3, as the set of its elements
Row(arr, ch) ==
  LET w == Size(arr) \div arr.shape[1]
  IN { arr.elems[p] : p \in (ch * w + 1)..((ch + 1) * w) }

\* channelData.reshape(1, len(channelData)) of a rank-1 array
ReshapeRow(arr) == [shape |-> <<1, arr.shape[1]>>, elems |-> arr.elems]

\* Transpose that swaps the shape and leaves the elements in place
TransposeKeep(arr) ==
  [shape |-> [d \in 1..Rank(arr) |-> arr.shape[Rank(arr) + 1 - d]],
   elems |-> arr.elems]

\* channelData.transpose(): the axes reversed
Transpose(arr) ==
  IF Rank(arr) = 2
  THEN LET C == arr.shape[1]
           N == arr.shape[2]
       IN [shape |-> <<N, C>>,
           elems |-> [p \in 1..(C * N) |->
                        arr.elems[((p - 1) % C) * N + ((p - 1) \div C) + 1]]]
  ELSE LET C == arr.shape[1]
           N == arr.shape[2]
           D == arr.shape[3]
       IN [shape |-> <<D, N, C>>,
           elems |-> [p \in 1..(C * N * D) |->
                        LET c == (p - 1) % C
                            n == ((p - 1) \div C) % N
                            d == (p - 1) \div (C * N)
                        IN arr.elems[(c * N + n) * D + d + 1]]]

\* reshape((1, n))[0] is defined only when the sizes agree
CanFlatten(arr, n) == Size(arr) = n

\* np.tile(valueScale, reps)
Tile(vs, reps) == [p \in 1..(Len(vs) * reps) |-> vs[((p - 1) % Len(vs)) + 1]]

\* np.multiply broadcasts two 1-D operands of equal length or of length 1
CanBroadcast(n1, n2) == n1 = n2 \/ n1 = 1 \/ n2 = 1

\* ------------------------------------------------------------ unit labels
\* A string is a sequence of characters; "mu" is the micro sign, the one
\* character of the unit pool that str.encode() turns into two bytes.
Encode1(c) == IF c = "mu" THEN <<"xC2", "xB5">> ELSE <<c>>

RECURSIVE Encode(_)
Encode(str) == IF str = <<>> THEN <<>> ELSE Encode1(Head(str)) \o Encode(Tail(str))

\* while len(unitStringCh) < 8: unitStringCh = unitStringCh + " "
RECURSIVE PadUnit(_)
PadUnit(str) == IF Len(str) < UnitWidth THEN PadUnit(Append(str, " ")) ELSE str

\* struct '8s': the first 8 bytes, null-padded when there are fewer
Pack8s(bytes) ==
  [b \in 1..UnitWidth |-> IF b <= Len(bytes) THEN bytes[b] ELSE "x00"]

\* ----------------------------------------------------------------- inputs
\* Sample pools.  PoolFit holds amplitudes the scale search accepts at
\* steps 1, 1, 1, 2, 3, 4 and 10; PoolWide adds amplitudes just below
\* and above 32767 / (3276.8 * 10^-10), the largest one the search accepts.
S(m, e) == [m |-> m, e |-> e]

PoolFit == << S(1, 0), S(-2, 0), S(37, 0), S(-150, 0), S(1000, 0),
              S(40000, 0), S(5, 10) >>

PoolWide == << S(3, 0), S(99999, 6), S(-7, 1), S(99996, 6), S(-99997, 6), S(0, 0) >>

Pools == {PoolFit, PoolWide}

\* element (ch, i) of a generated array: the pool read cyclically, channel
\* ch starting a * ch + c places into it
Elem(pool, a, c, ch, i) == pool[((a * ch + i + c) % Len(pool)) + 1]

GenArray2(C, N, pool, a, c) ==
  [shape |-> <<C, N>>,
   elems |-> [p \in 1..(C * N) |-> Elem(pool, a, c, (p - 1) \div N, (p - 1) % N)]]

GenArray1(N, pool, c) ==
  [shape |-> <<N>>, elems |-> [p \in 1..N |-> Elem(pool, 0, c, 0, p - 1)]]

GenArray3(C, N, D, pool, a, c) ==
  [shape |-> <<C, N, D>>,
   elems |-> [p \in 1..(C * N * D) |->
                Elem(pool, a, c, (p - 1) \div (N * D), ((p - 1) \div D) % N)]]

ChannelCounts == 1..MaxCh \cup {MAX_NUM_CH, MAX_NUM_CH + 1}

\* sample counts: none, a few, and enough to fill a block with 16 channels
SampleCounts == 0..MaxN \cup {BLOCKSIZE \div (bytesPerPoint * MAX_NUM_CH)}

GenArrays ==
  { GenArray2(C, N, pool, a, c) :
      C \in ChannelCounts, N \in SampleCounts, pool \in Pools,
      a \in 0..1, c \in 0..MaxShift }
  \cup { GenArray1(N, pool, c) :
      N \in SampleCounts, pool \in Pools, c \in 0..MaxShift }
  \cup { GenArray3(C, N, D, PoolFit, 1, c) :
      C \in 1..MaxCh, N \in 1..MaxN, D \in 1..2, c \in 0..MaxShift }

\* Hand-written inputs: the scenarios of the documentation and inputs in
\* which one channel exceeds every step of the scale search.
ScenarioA == [shape |-> <<4>>, elems |-> << S(1, 0), S(-2, 0), S(3, 0), S(-4, 0) >>]

ScenarioB == [shape |-> <<2, 3>>,
              elems |-> << S(1, 0), S(-5, 0), S(2, 0), S(3, 0), S(4, 0), S(-1, 0) >>]

ScenarioC == [shape |-> <<1, 2>>, elems |-> << S(40000, 0), S(-12, 0) >>]

ScenarioC2 == [shape |-> <<2, 2>>,
               elems |-> << S(3, 0), S(-4, 0), S(-40000, 0), S(250, 0) >>]

OverTwo == [shape |-> <<2, 1>>, elems |-> << S(99999, 6), S(5, 10) >>]

OverThree == [shape |-> <<3, 2>>,
              elems |-> << S(99999, 6), S(0, 0), S(1, 0), S(5, 10), S(1, 0), S(1, 0) >>]

OverAll == [shape |-> <<1, 2>>, elems |-> << S(1, 11), S(2, 0) >>]

BlockEdge(N) == GenArray2(1, N, PoolFit, 0, 0)

ScenarioArrays ==
  { ScenarioA, ScenarioB, ScenarioC, ScenarioC2, OverTwo, OverThree, OverAll }
  \cup { BlockEdge(N) : N \in ((BLOCKSIZE \div bytesPerPoint) - 1)..((BLOCKSIZE \div bytesPerPoint) + 1) }

InputArrays ==
  { arr \in GenArrays \cup ScenarioArrays :
      \A p \in 1..Size(arr) : Abs(arr.elems[p].m) <= MantMax }

\* the default of the units parameter (line 14)
DefaultUnits == << <<"m", "V">> >>

UnitPool == << <<"m", "V">>, <<"p", "A">>, <<"mu", "V">>,
               <<"m", "i", "c", "r", "o", "v", "o", "l", "t", "s">>,
               <<"m", "i", "l", "l", "i", "A", "m", "p">> >>

GenUnits(n, u) == [ch \in 1..n |-> UnitPool[((ch - 1 + u) % Len(UnitPool)) + 1]]

\* unit lists a caller passes for an array whose first dimension is C:
\* one label per channel, one too few, one too many
GivenUnits(C) ==
  { GenUnits(C, u) : u \in 0..MaxShift } \cup { GenUnits(C - 1, 0), GenUnits(C + 1, 1) }

SampleRates == {10000, 20000}

\* ------------------------------------------------------------------ state
VARIABLES
  arg,                    \* the caller's array, as passed (never mutated)
  units,                  \* the units parameter
  unitsOmitted,           \* TRUE when the caller left units to its default
  sampleRateHz,           \* the sampleRateHz parameter
  channelData,            \* the local name channelData (rebound as the code goes)
  channelCount, channelPointCount, dataPointCount, dataBlocks,
  data,                   \* the bytearray, as its fields
  maxVal,                 \* peak deviation per channel
  valueScale,             \* the list of accepted scales, then its tiling
  fInstrumentScaleFactor, \* the value 10^-k, kept as k
  ch,                     \* the channel of the scale search
  unitString,             \* the padded unit labels
  file,                   \* the destination path on disk
  pc,                     \* the block that runs next
  exc                     \* the exception raised, "" while there is none

vars == << arg, units, unitsOmitted, sampleRateHz, channelData, channelCount,
           channelPointCount, dataPointCount, dataBlocks, data, maxVal,
           valueScale, fInstrumentScaleFactor, ch, unitString, file, pc, exc >>

locals == << channelData, channelCount, channelPointCount, dataPointCount,
             dataBlocks, data, maxVal, valueScale, fInstrumentScaleFactor,
             ch, unitString >>

params == << arg, units, unitsOmitted, sampleRateHz >>

Slots == 0..(MAX_NUM_CH - 1)

\* a float32 field that holds the ratio num / den
Ratio(num, den) == [num |-> num, den |-> den]

\* an instrument scale factor slot that was never written (0.0)
BlankStep == -1

\* bytearray(n): n zero bytes, read as the fields of the ABF1 header
\* followed by the int16 samples stored from byte dataOffset on
BlankData(n) ==
  [len |-> n,
   fFileSignature |-> <<"x00", "x00", "x00", "x00">>,
   fFileVersionNumber |-> Ratio(0, 1),
   nOperationMode |-> 0,
   lActualAcqLength |-> 0,
   lActualEpisodes |-> 0,
   lDataSectionPtr |-> 0,
   nDataFormat |-> 0,
   nADCNumChannels |-> 0,
   fADCSampleInterval |-> Ratio(0, 1),
   lNumSamplesPerEpisode |-> 0,
   fADCRange |-> 0,
   lADCResolution |-> 0,
   nADCPtoLChannelMap |-> [c \in Slots |-> 0],
   nADCSamplingSeq |-> [c \in Slots |-> 0],
   sADCUnits |-> [c \in Slots |-> [b \in 1..UnitWidth |-> "x00"]],
   fADCProgrammableGain |-> [c \in Slots |-> 0],
   fInstrumentScaleFactor |-> [c \in Slots |-> BlankStep],
   fSignalGain |-> [c \in Slots |-> 0],
   dataOffset |-> 0,
   samples |-> <<>>]

\* the destination before the call: the path has not been touched
NoFile == [opened |-> FALSE, writes |-> <<>>, closed |-> FALSE]

\* the channel count a caller reads off its array
ArgChannels(arr) == IF Rank(arr) = 1 THEN 1 ELSE arr.shape[1]

Init ==
  /\ arg \in InputArrays
  /\ \/ unitsOmitted = TRUE /\ units = DefaultUnits
     \/ unitsOmitted = FALSE /\ units \in GivenUnits(ArgChannels(arg))
  /\ sampleRateHz \in SampleRates
  /\ channelData = arg
  /\ channelCount = 0
  /\ channelPointCount = 0
  /\ dataPointCount = 0
  /\ dataBlocks = 0
  /\ data = BlankData(0)
  /\ maxVal = <<>>
  /\ valueScale = <<>>
  /\ fInstrumentScaleFactor = 0
  /\ ch = 0
  /\ unitString = <<>>
  /\ file = NoFile
  /\ pc = "dims"
  /\ exc = ""

\* raise e: the call ends, nothing else changes
Raise(e) == pc' = "error" /\ exc' = e

\* ---------------------------------------------------------------- actions
\* lines 33-39: determine dimensions of data
Dims ==
  /\ pc = "dims"
  /\ LET reshaped == IF Rank(channelData) < 2 THEN ReshapeRow(channelData)
                     ELSE channelData
     IN /\ channelData' = reshaped
        /\ channelCount' = reshaped.shape[1]
        /\ channelPointCount' = reshaped.shape[2]
        /\ dataPointCount' = reshaped.shape[2] * reshaped.shape[1]
  /\ pc' = "alloc"
  /\ UNCHANGED << params, dataBlocks, data, maxVal, valueScale,
                  fInstrumentScaleFactor, ch, unitString, file, exc >>

\* DataBlocks without the extra block
DataBlocksExact(points) == (points * bytesPerPoint) \div BLOCKSIZE

\* int(dataPointCount * bytesPerPoint / BLOCKSIZE) + 1
DataBlocks(points) == ((points * bytesPerPoint) \div BLOCKSIZE) + 1

\* lines 41-44: size the file and create the byte array
Alloc ==
  /\ pc = "alloc"
  /\ dataBlocks' = DataBlocks(dataPointCount)
  /\ data' = BlankData((DataBlocks(dataPointCount) + HEADER_BLOCKS) * BLOCKSIZE)
  /\ pc' = "header"
  /\ UNCHANGED << params, channelData, channelCount, channelPointCount,
                  dataPointCount, maxVal, valueScale, fInstrumentScaleFactor,
                  ch, unitString, file, exc >>

\* lines 46-55: the header values that do not depend on the channel
Header ==
  /\ pc = "header"
  /\ data' = [data EXCEPT
       !.fFileSignature = <<"A", "B", "F", " ">>,
       !.fFileVersionNumber = Ratio(13, 10),
       !.nOperationMode = 5,
       !.lActualAcqLength = dataPointCount,
       !.lActualEpisodes = 1,
       !.lDataSectionPtr = HEADER_BLOCKS,
       !.nDataFormat = 0,
       !.fADCSampleInterval = Ratio(1000000, sampleRateHz * channelCount),
       !.lNumSamplesPerEpisode = dataPointCount]
  /\ pc' = "chanhdr"
  /\ UNCHANGED << params, channelData, channelCount, channelPointCount,
                  dataPointCount, dataBlocks, maxVal, valueScale,
                  fInstrumentScaleFactor, ch, unitString, file, exc >>

\* ChannelSlot with the bound off by one
ChannelSlotOffByOne(c, count) == IF c <= count THEN c ELSE -1

\* the value of slot c of nADCPtoLChannelMap and of nADCSamplingSeq
ChannelSlot(c, count) == IF c <= count - 1 THEN c ELSE -1

\* lines 57-65: channel count, channel map and sampling sequence
ChannelHeader ==
  /\ pc = "chanhdr"
  /\ data' = [data EXCEPT
       !.nADCNumChannels = channelCount,
       !.nADCPtoLChannelMap = [c \in Slots |-> ChannelSlot(c, channelCount)],
       !.nADCSamplingSeq = [c \in Slots |-> ChannelSlot(c, channelCount)]]
  /\ pc' = "maxval"
  /\ UNCHANGED << params, channelData, channelCount, channelPointCount,
                  dataPointCount, dataBlocks, maxVal, valueScale,
                  fInstrumentScaleFactor, ch, unitString, file, exc >>

\* lines 75-78: the peak deviation from zero of every channel; np.max of
\* an empty row raises ValueError
PeakValues ==
  /\ pc = "maxval"
  /\ IF \E c \in 0..(channelCount - 1) : Row(channelData, c) = {}
     THEN /\ Raise("ValueError")
          /\ UNCHANGED maxVal
     ELSE /\ maxVal' = [c \in 0..(channelCount - 1) |->
                          SampleMax({ AbsSample(x) : x \in Row(channelData, c) })]
          /\ pc' = "scale"
          /\ UNCHANGED exc
  /\ UNCHANGED << params, channelData, channelCount, channelPointCount,
                  dataPointCount, dataBlocks, data, valueScale,
                  fInstrumentScaleFactor, ch, unitString, file >>

\* lines 83-91: the scale search of channel ch.  The factor restarts at 1
\* and is divided by 10 once per attempt; the scale is appended only when
\* an attempt is accepted.
ScaleChannel ==
  /\ pc = "scale"
  /\ LET k == SearchStep(maxVal[ch], 1)
     IN /\ valueScale' = IF k = 0 THEN valueScale ELSE Append(valueScale, k)
        /\ fInstrumentScaleFactor' = IF k = 0 THEN ScaleAttempts ELSE k
  /\ ch' = ch + 1
  /\ pc' = IF ch + 1 < channelCount THEN "scale" ELSE "units"
  /\ UNCHANGED << params, channelData, channelCount, channelPointCount,
                  dataPointCount, dataBlocks, data, maxVal, unitString,
                  file, exc >>

\* lines 93-99: the unit of every channel as a space-padded string;
\* units[ch] raises IndexError when the list is shorter than the channels
Units ==
  /\ pc = "units"
  /\ IF Len(units) < channelCount
     THEN /\ Raise("IndexError")
          /\ UNCHANGED unitString
     ELSE /\ unitString' = [c \in 1..channelCount |-> PadUnit(units[c])]
          /\ pc' = "scalehdr"
          /\ UNCHANGED exc
  /\ UNCHANGED << params, channelData, channelCount, channelPointCount,
                  dataPointCount, dataBlocks, data, maxVal, valueScale,
                  fInstrumentScaleFactor, ch, file >>

\* the label stored in slot c: unitString[min([c, channelCount-1])]
SlotUnit(c) == Pack8s(Encode(unitString[Min(c, channelCount - 1) + 1]))

\* the instrument scale factor stored in slot c (line 105)
SlotScaleFactor(c, factor) == factor

\* lines 101-108: the scale data of the header, for all 16 slots
ScaleHeader ==
  /\ pc = "scalehdr"
  /\ data' = [data EXCEPT
       !.lADCResolution = lADCResolution,
       !.fADCRange = fADCRange,
       !.fInstrumentScaleFactor =
            [c \in Slots |-> SlotScaleFactor(c, fInstrumentScaleFactor)],
       !.fSignalGain = [c \in Slots |-> fSignalGain],
       !.fADCProgrammableGain = [c \in Slots |-> fADCProgrammableGain],
       !.sADCUnits = [c \in Slots |-> SlotUnit(c)]]
  /\ pc' = "interleave"
  /\ UNCHANGED << params, channelData, channelCount, channelPointCount,
                  dataPointCount, dataBlocks, maxVal, valueScale,
                  fInstrumentScaleFactor, ch, unitString, file, exc >>

\* lines 110-112: interleave signals; reshape raises ValueError when the
\* array does not hold dataPointCount elements
Interleave ==
  /\ pc = "interleave"
  /\ LET t == Transpose(channelData)
     IN IF CanFlatten(t, dataPointCount)
        THEN /\ channelData' = [shape |-> <<dataPointCount>>, elems |-> t.elems]
             /\ pc' = "tile"
             /\ UNCHANGED exc
        ELSE /\ Raise("ValueError")
             /\ UNCHANGED channelData
  /\ UNCHANGED << params, channelCount, channelPointCount, dataPointCount,
                  dataBlocks, data, maxVal, valueScale,
                  fInstrumentScaleFactor, ch, unitString, file >>

\* lines 115-116: repeat the scale list int(dataPointCount / len) times;
\* an empty list raises ZeroDivisionError
TileScale ==
  /\ pc = "tile"
  /\ IF Len(valueScale) = 0
     THEN /\ Raise("ZeroDivisionError")
          /\ UNCHANGED valueScale
     ELSE /\ valueScale' = Tile(valueScale, dataPointCount \div Len(valueScale))
          /\ pc' = "multiply"
          /\ UNCHANGED exc
  /\ UNCHANGED << params, channelData, channelCount, channelPointCount,
                  dataPointCount, dataBlocks, data, maxVal,
                  fInstrumentScaleFactor, ch, unitString, file >>

\* line 117: the element-wise product, kept as the pair of its factors;
\* operands that do not broadcast raise ValueError
Multiply ==
  /\ pc = "multiply"
  /\ LET n1 == Size(channelData)
         n2 == Len(valueScale)
         n == IF n1 >= n2 THEN n1 ELSE n2
     IN IF CanBroadcast(n1, n2)
        THEN /\ channelData' =
                  [shape |-> <<n>>,
                   elems |-> [p \in 1..n |->
                      [s |-> channelData.elems[IF n1 = 1 THEN 1 ELSE p],
                       k |-> valueScale[IF n2 = 1 THEN 1 ELSE p]]]]
             /\ pc' = "quantize"
             /\ UNCHANGED exc
        ELSE /\ Raise("ValueError")
             /\ UNCHANGED channelData
  /\ UNCHANGED << params, channelCount, channelPointCount, dataPointCount,
                  dataBlocks, data, maxVal, valueScale,
                  fInstrumentScaleFactor, ch, unitString, file >>

\* lines 120-122: astype(int) and tolist()
Quantize ==
  /\ pc = "quantize"
  /\ channelData' = [p \in 1..Size(channelData) |->
                       ScaleTrunc(channelData.elems[p].s, channelData.elems[p].k)]
  /\ pc' = "pack"
  /\ UNCHANGED << params, channelCount, channelPointCount, dataPointCount,
                  dataBlocks, data, maxVal, valueScale,
                  fInstrumentScaleFactor, ch, unitString, file, exc >>

dataByteOffset == BLOCKSIZE * HEADER_BLOCKS

\* struct format 'h' takes SHRT_MIN..SHRT_MAX
FitsShort(v) == SHRT_MIN <= v /\ v <= SHRT_MAX

\* line 123: pack the samples into the byte array from dataByteOffset on;
\* struct.error for a value outside int16 or a buffer that is too small
Pack ==
  /\ pc = "pack"
  /\ IF /\ \A p \in 1..Len(channelData) : FitsShort(channelData[p])
        /\ dataByteOffset + bytesPerPoint * Len(channelData) <= data.len
     THEN /\ data' = [data EXCEPT !.dataOffset = dataByteOffset,
                                  !.samples = channelData]
          /\ pc' = "open"
          /\ UNCHANGED exc
     ELSE /\ Raise("struct.error")
          /\ UNCHANGED data
  /\ UNCHANGED << params, channelData, channelCount, channelPointCount,
                  dataPointCount, dataBlocks, maxVal, valueScale,
                  fInstrumentScaleFactor, ch, unitString, file >>

\* FileWrite that sends the header and the whole buffer separately
FileWriteSplit(f, buf) ==
  [f EXCEPT !.writes = @ \o <<[buf EXCEPT !.samples = <<>>], buf>>]

\* f.write(data): the buffer handed to storage
FileWrite(f, buf) == [f EXCEPT !.writes = Append(@, buf)]

\* line 126: open(filename, 'wb') creates or truncates the destination
OpenOk ==
  /\ pc = "open"
  /\ file' = [file EXCEPT !.opened = TRUE]
  /\ pc' = "write"
  /\ UNCHANGED << params, locals, exc >>

\* line 126: the destination cannot be opened
OpenFail ==
  /\ pc = "open"
  /\ Raise("OSError")
  /\ UNCHANGED << params, locals, file >>

\* lines 127-128: write the byte array, close the file, return
WriteOk ==
  /\ pc = "write"
  /\ file' = [FileWrite(file, data) EXCEPT !.closed = TRUE]
  /\ pc' = "done"
  /\ UNCHANGED << params, locals, exc >>

\* line 127: the write fails; the with block closes the file
WriteFail ==
  /\ pc = "write"
  /\ file' = [file EXCEPT !.closed = TRUE]
  /\ Raise("OSError")
  /\ UNCHANGED << params, locals >>

Next ==
  \/ Dims \/ Alloc \/ Header \/ ChannelHeader \/ PeakValues \/ ScaleChannel
  \/ Units \/ ScaleHeader \/ Interleave \/ TileScale \/ Multiply \/ Quantize
  \/ Pack \/ OpenOk \/ OpenFail \/ WriteOk \/ WriteFail

Spec == Init /\ [][Next]_vars

\* ------------------------------------------------- the call, as its caller sees it
\* samples per channel of the caller's array
ArgPoints(arr) == IF Rank(arr) = 1 THEN arr.shape[1] ELSE arr.shape[2]

\* sample i of channel c of the caller's array (first element of the cell
\* when the array has a third axis)
ArgSample(c, i) ==
  arg.elems[(c * ArgPoints(arg) + i) * (IF Rank(arg) = 3 THEN arg.shape[3] ELSE 1) + 1]

\* the attenuation step the scale search accepts for channel c of the
\* caller's array on its own, 0 when it accepts none
ChannelStep(c) ==
  SearchStep(SampleMax({ AbsSample(ArgSample(c, i)) : i \in 0..(ArgPoints(arg) - 1) }), 1)

\* the array is one the documentation calls valid
ValidShape ==
  Rank(arg) <= 2 /\ ArgChannels(arg) \in 1..MAX_NUM_CH /\ ArgPoints(arg) >= 1

Encoded == pc = "done"

\* the buffer that reached the destination
Output == file.writes[1]

\* ------------------------------------------------------------------ claims

\* C1: interleaving law.  After a successful encode of C channels
\* (1 <= C <= 16) of N >= 1 samples, the int16 at data-region position
\* i*C + ch (byte 2048 + (i*C + ch)*2 of the output) is sample i of channel
\* ch, quantized with the scale the encoder applied at that position (the
\* channel's own scale whenever every channel passed the scale search),
\* and the data region holds exactly C*N values.
InterleavingLaw ==
  (Encoded /\ ValidShape) =>
    LET C == ArgChannels(arg)
        N == ArgPoints(arg)
    IN /\ Output.dataOffset = 2048
       /\ Len(Output.samples) = C * N
       /\ \A c \in 0..(C - 1) : \A i \in 0..(N - 1) :
            /\ Output.samples[i * C + c + 1] =
                 ScaleTrunc(ArgSample(c, i), valueScale[i * C + c + 1])
            /\ (\A c2 \in 0..(C - 1) : ChannelStep(c2) # 0) =>
                 Output.samples[i * C + c + 1] =
                   ScaleTrunc(ArgSample(c, i), ChannelStep(c))

\* C1 witness: an encoded array of at least two channels and two samples
\* whose channels differ in their first sample
InterleavingWitness ==
  /\ Encoded /\ ValidShape
  /\ ArgChannels(arg) >= 2 /\ ArgPoints(arg) >= 2
  /\ Output.samples[1] # Output.samples[2]
  /\ Output.samples[2] # Output.samples[ArgChannels(arg) + 1]

\* C2: file size.  Once the buffer is allocated, dataBlocks is
\* floor(C*N*2/512) + 1, the buffer has (dataBlocks + 4)*512 bytes, the
\* C*N two-byte samples written from byte 2048 end before the end of the
\* buffer, and the buffer written to the file has that size.
BufferSize ==
  LET C == ArgChannels(arg)
      N == ArgPoints(arg)
  IN /\ pc \notin {"dims", "alloc"} =>
          /\ dataBlocks = ((C * N * 2) \div 512) + 1
          /\ data.len = (dataBlocks + 4) * 512
          /\ 2048 + 2 * C * N < data.len
     /\ Encoded => Output.len = (((C * N * 2) \div 512) + 1 + 4) * 512

\* C2 witness: an encoded array whose samples fill a whole block exactly
BufferSizeWitness ==
  /\ Encoded
  /\ ArgChannels(arg) * ArgPoints(arg) * 2 = 512
  /\ dataBlocks = 2

\* C3: per-channel instrument scale factor.  After a successful encode,
\* header slot ch of every channel ch holds 10^-k for the step k that the
\* scale search accepted for channel ch itself.
ScaleFactorPerChannel ==
  (Encoded /\ ValidShape) =>
    \A c \in 0..(ArgChannels(arg) - 1) :
      Output.fInstrumentScaleFactor[c] = ChannelStep(c)

\* C4: round trip.  After a successful encode, the value at position
\* i*C + ch was scaled with the scale that the search accepted for channel
\* ch = (i*C + ch) mod C and is the product truncated toward zero, so that
\* dividing it by that scale gives the sample back within 1/scale.
RoundTrip ==
  (Encoded /\ ValidShape) =>
    LET C == ArgChannels(arg)
    IN \A c \in 0..(C - 1) : \A i \in 0..(ArgPoints(arg) - 1) :
         /\ ChannelStep(c) # 0
         /\ valueScale[i * C + c + 1] = ChannelStep(c)
         /\ Output.samples[i * C + c + 1] = ScaleTrunc(ArgSample(c, i), ChannelStep(c))

\* C5: scale overflow is reported.  When the search accepts no step for
\* some channel, the encode does not go on past the scale search with a
\* scale list shorter than the channels, ends in ScaleOverflowError and
\* leaves the destination alone.
ScaleOverflowReported ==
  (ValidShape /\ \E c \in 0..(ArgChannels(arg) - 1) : ChannelStep(c) = 0) =>
    /\ pc \notin {"units", "scalehdr", "interleave", "tile", "multiply",
                  "quantize", "pack", "open", "write", "done"}
    /\ pc = "error" => exc = "ScaleOverflowError"
    /\ file = NoFile

\* some channel of the caller's array has peak amplitude 40000
HasPeak40000 ==
  /\ ArgPoints(arg) >= 1
  /\ \E c \in 0..(ArgChannels(arg) - 1) :
       SampleMax({ AbsSample(ArgSample(c, i)) : i \in 0..(ArgPoints(arg) - 1) }) = S(40000, 0)

\* C6 as stated: an input with a channel of peak amplitude 40000 is not
\* encoded and its destination is never opened.
Scenario40000Fails ==
  HasPeak40000 => (~Encoded /\ ~file.opened)

\* C6 amended: the scale search accepts step 4 for a channel of peak
\* amplitude 40000 (its scale is 3276.8 * 10^-4), and a single-channel
\* array of that amplitude is encoded unless a unit label is missing or
\* the destination fails; its sample 40000 is stored as 13107.
Scenario40000Accepted ==
  /\ (pc \in {"scale", "units", "scalehdr", "interleave", "tile"}
        /\ ch > 0 /\ maxVal[ch - 1] = S(40000, 0)) =>
        (valueScale # <<>> /\ valueScale[Len(valueScale)] = 4
           /\ fInstrumentScaleFactor = 4)
  /\ (HasPeak40000 /\ Rank(arg) <= 2 /\ ArgChannels(arg) = 1) =>
        /\ pc \in {"units", "scalehdr", "interleave", "tile"} => valueScale = <<4>>
        /\ pc = "error" => (exc = "OSError" \/ (exc = "IndexError" /\ Len(units) = 0))
        /\ Encoded =>
             \A i \in 0..(ArgPoints(arg) - 1) :
               /\ ArgSample(0, i) = S(40000, 0) => Output.samples[i + 1] = 13107
               /\ ArgSample(0, i) = S(-40000, 0) => Output.samples[i + 1] = -13107

\* C6 witness: a single channel of peak amplitude 40000, encoded
Scenario40000Witness ==
  Encoded /\ HasPeak40000 /\ ArgChannels(arg) = 1 /\ 13107 \in { Output.samples[p] : p \in 1..Len(Output.samples) }

\* the label the documentation gives a unit string: its bytes, cut or
\* filled with spaces to 8 bytes
FixedWidth(bytes) ==
  [b \in 1..UnitWidth |-> IF b <= Len(bytes) THEN bytes[b] ELSE " "]

\* C7: default units.  With units omitted every array of 1..16 channels
\* whose channels all pass the scale search is encoded (it fails only when
\* the destination fails) and every label is "mV" padded to 8 bytes; with
\* units given, the label of slot ch is the unit of channel min(ch, C-1)
\* padded or truncated to exactly 8 bytes.
DefaultUnitsWork ==
  LET C == ArgChannels(arg)
  IN /\ (unitsOmitted /\ ValidShape /\ pc = "error"
           /\ \A c \in 0..(C - 1) : ChannelStep(c) # 0) => exc = "OSError"
     /\ (Encoded /\ ValidShape) =>
          \A c \in Slots :
            Output.sADCUnits[c] =
              IF unitsOmitted THEN <<"m", "V", " ", " ", " ", " ", " ", " ">>
              ELSE FixedWidth(Encode(units[Min(c, C - 1) + 1]))

\* C8: channel map sentinels.  After a successful encode of C channels,
\* entry ch of the channel map and of the sampling sequence is ch for
\* ch < C and -1 for the other slots, and the channel count field is C.
ChannelMapSentinels ==
  Encoded =>
    /\ Output.nADCNumChannels = ArgChannels(arg)
    /\ \A c \in 0..15 :
         /\ Output.nADCPtoLChannelMap[c] = (IF c < ArgChannels(arg) THEN c ELSE -1)
         /\ Output.nADCSamplingSeq[c] = (IF c < ArgChannels(arg) THEN c ELSE -1)

\* C8 witness: an encoded array with used and unused slots
ChannelMapWitness ==
  /\ Encoded
  /\ ArgChannels(arg) = 2
  /\ Output.nADCPtoLChannelMap[1] = 1
  /\ Output.nADCPtoLChannelMap[2] = -1

\* C9: shape validation.  An array of rank above 2, of more than 16
\* channels or of no samples is not encoded and its destination is never
\* opened; no file has a channel count above the 16 header slots.
ShapeValidated ==
  /\ ~ValidShape => (~Encoded /\ ~file.opened)
  /\ file.writes # <<>> => Output.nADCNumChannels <= 16

\* the state part of C10
NoIOState ==
  /\ file.opened =>
       /\ pc \in {"write", "done", "error"}
       /\ data.fFileSignature = <<"A", "B", "F", " ">>
       /\ data.nADCNumChannels = channelCount
       /\ \A c \in Slots : data.fInstrumentScaleFactor[c] # BlankStep
       /\ data.dataOffset = 2048
       /\ Len(data.samples) = dataPointCount
       /\ \A p \in 1..Len(data.samples) : FitsShort(data.samples[p])
  /\ (pc = "error" /\ exc # "OSError") => file = NoFile
  /\ Len(file.writes) <= 1
  /\ file.writes # <<>> => (Encoded /\ Output = data)

\* C10: no I/O before the buffer is complete.  The destination is opened
\* only once header, scale selection, interleaving and quantization are
\* done; a failure of any of them leaves the destination untouched; the
\* whole buffer goes to storage in one write; nothing runs after the call
\* has failed or returned.
NoIOBeforeComplete ==
  []NoIOState /\ [][pc \notin {"error", "done"}]_vars

\* C10 witness: quantization has failed and the destination is untouched
NoIOWitness ==
  pc = "error" /\ exc = "struct.error" /\ file = NoFile

====
